---- MODULE Spec2Model ----
(***************************************************************************)
(* Model of the product ordering service (backend/models.py,               *)
(* backend/views.py, backend/admin.py).  The relational store is the       *)
(* state.  No handler opens a transaction or takes a lock: each ORM         *)
(* statement is committed on its own, so a handler that raises part-way    *)
(* leaves the rows it has already written, and the statements of other     *)
(* requests run between its statements.  The import, basket and            *)
(* confirmation handlers are one step per ORM statement, with the position *)
(* and the local variables of the request in pending; a handler that       *)
(* touches the store with a single statement is one action.                *)
(*                                                                         *)
(* The ORM resolves every field name a handler mentions against the model  *)
(* classes of models.py.  The field tables below are those classes' field  *)
(* names; a handler that names a field its model does not have raises      *)
(* (FieldError, FieldDoesNotExist, AttributeError) at that statement.      *)
(***************************************************************************)
EXTENDS Integers, Sequences, FiniteSets, TLC

\* ---------------------------------------------------------------- bounds
MaxContacts == 2
MaxProductInfos == 4
MaxOrderItems == 2
MaxOrders == 3
MaxSent == 2
MaxUsers == 4
MaxParameters == 3

\* ------------------------------------------------------------ the callers
Anonymous == 0
Users == {1, 2}
Callers == Users \cup {Anonymous}

UserType(u) == "seller"

\* The accounts of the callers: registered and confirmed before the first request.
Accounts ==
    << [email |-> "one@shop", is_active |-> TRUE],
       [email |-> "two@shop", is_active |-> TRUE] >>

\* The server's request workers, and a worker that is between requests.
Workers == {1, 2}

Idle == [phase |-> "idle", op |-> "none", user |-> Anonymous, args |-> <<>>, found |-> 0]

\* ----------------------------------------------------- models.py: schema
STATE_CHOICES ==
    {"basket", "new", "confirmed", "assembled", "sent", "delivered", "canceled"}

\* Names Order.objects.filter()/update() can resolve on Order.
OrderFields == {"id", "user", "user_id", "dt", "state", "ordered_items"}

\* Names a lookup can resolve on OrderItem.
OrderItemFields ==
    {"id", "order", "order_id", "product", "product_id", "shop", "shop_id", "quantity"}

\* Attributes of a Category instance (its fields and reverse accessors).
CategoryAttrs == {"id", "name", "shops", "products"}

\* OrderItem declares no unique constraint over (order, product).
OrderItemUniqueTogether == FALSE

\* ------------------------------------------------- the catalog documents
Good(id, category, name, model, quantity, price, price_rrc, hasParameters, parameters) ==
    [id |-> id, category |-> category, name |-> name, model |-> model,
     quantity |-> quantity, price |-> price, price_rrc |-> price_rrc,
     hasParameters |-> hasParameters, parameters |-> parameters]

Hammer == Good(10, 1, "Hammer", "H1", 5, 100, 120, TRUE, <<<<"Weight", "1kg">>>>)
Saw == Good(11, 1, "Saw", "S1", 3, 50, 60, TRUE, <<<<"Weight", "2kg">>, <<"Color", "red">>>>)
HammerSale == Good(10, 1, "Hammer", "H1", 7, 90, 120, TRUE, <<>>)
Nail == Good(12, 1, "Nail", "N1", 9, 1, 2, FALSE, <<>>)
Bolt == Good(13, 2, "Bolt", "B1", 4, 5, 6, TRUE, <<>>)

Docs ==
    << [seller |-> "Acme", categories |-> <<[id |-> 1, name |-> "Tools"]>>,
        goods |-> <<Hammer>>],
       [seller |-> "Acme", categories |-> <<>>, goods |-> <<Hammer, Saw>>],
       [seller |-> "Acme", categories |-> <<>>, goods |-> <<HammerSale>>],
       [seller |-> "Acme", categories |-> <<>>, goods |-> <<Saw, Nail>>],
       [seller |-> "Acme", categories |-> <<>>, goods |-> <<Saw, Bolt>>] >>

Urls ==
    {[kind |-> "missing", doc |-> 0], [kind |-> "invalid", doc |-> 0]}
        \cup {[kind |-> "doc", doc |-> i] : i \in 1..Len(Docs)}

\* ------------------------------------------------------------- the state
VARIABLES
    users,             \* User rows: users[id] = [email, is_active]
    confirmTokens,     \* ConfirmEmailToken rows: set of [user, key]
    nextKey,           \* the next key the token generator hands out
    pending,           \* pending[w]: the request worker w is in the middle of
    contacts,          \* Contact rows: contacts[id] = [user, address], or
                       \* NoContact once the row is deleted (ids are not reused)
    sellers,           \* Seller rows: sellers[id] = [user, name]
    categories,        \* Category rows: set of [id, name]
    categorySellers,   \* Category.shops rows: set of <<category id, seller id>>
    products,          \* Product rows: products[id] = [name, category]
    productInfos,      \* ProductInfo rows: set of records with id
    nextProductInfo,   \* next ProductInfo id
    parameters,        \* Parameter rows: parameters[id] = name
    productParameters, \* ProductParameter rows: set of [product_info, parameter, value]
    orders,            \* Order rows: orders[id] = [user_id, contact, state], or
                       \* NoOrder once the row is deleted (ids are not reused);
                       \* user_id is the Contact the row references (Order.user),
                       \* contact is what update(contact_id=...) stores: Order
                       \* declares no such field, so it stays 0
    orderItems,        \* OrderItem rows: set of [id, order, product, quantity]
    nextOrderItem,     \* next OrderItem id
    sent,              \* number of new_order signals sent
    resp               \* the response given last, with its request; NoResponse
                       \* once a request has been received since

vars ==
    <<users, confirmTokens, nextKey, pending, contacts, sellers, categories, categorySellers, products, productInfos,
      nextProductInfo, parameters, productParameters, orders, orderItems,
      nextOrderItem, sent, resp>>

authVars == <<users, confirmTokens, nextKey>>

catalogVars ==
    <<sellers, categories, categorySellers, products, productInfos,
      nextProductInfo, parameters, productParameters>>

storeVars == <<contacts, catalogVars, orders, orderItems, nextOrderItem, sent>>

\* A request (op, user, args) and what the handler answered.  For an import,
\* alone tells that no other request was received or answered while it was
\* served, and repeated that the request answered just before it began was the
\* same import, also served alone.
Response(op, user, args, status, count, rows) ==
    [op |-> op, user |-> user, args |-> args, status |-> status,
     count |-> count, rows |-> rows, repeated |-> FALSE, alone |-> TRUE]

\* A request has been received and no response given since.
NoResponse == Response("none", Anonymous, <<>>, "none", 0, {})

Init ==
    /\ users = Accounts
    /\ confirmTokens = {}
    /\ nextKey = 1
    /\ pending = [w \in Workers |-> Idle]
    /\ contacts = <<>>
    /\ sellers = <<>>
    /\ categories = {}
    /\ categorySellers = {}
    /\ products = <<>>
    /\ productInfos = {}
    /\ nextProductInfo = 1
    /\ parameters = <<>>
    /\ productParameters = {}
    /\ orders = <<>>
    /\ orderItems = {}
    /\ nextOrderItem = 1
    /\ sent = 0
    /\ resp = NoResponse

\* -------------------------------------------------------------- helpers
Range(s) == {s[i] : i \in 1..Len(s)}

\* What is left at the id of a deleted Contact or Order row.
NoContact == [user |-> Anonymous, address |-> "none"]

NoOrder == [user_id |-> 0, contact |-> 0, state |-> "deleted"]

\* A Contact row with this id is in the table.
ContactExists(id) == id \in 1..Len(contacts) /\ contacts[id] # NoContact


\* ------------------------------------------------ CatalogView.post
\* The tables an import reads and writes, with the outcome so far.
Catalog ==
    [status |-> "ok", sellers |-> sellers, categories |-> categories,
     categorySellers |-> categorySellers, products |-> products,
     productInfos |-> productInfos, nextProductInfo |-> nextProductInfo,
     parameters |-> parameters, productParameters |-> productParameters,
     orderItems |-> orderItems]

\* What the get() of a get_or_create answers for the set of rows that match.
Lookup(found) ==
    IF Cardinality(found) = 1 THEN [status |-> "ok", id |-> CHOOSE i \in found : TRUE]
    ELSE IF Cardinality(found) > 1 THEN [status |-> "MultipleObjectsReturned", id |-> 0]
    ELSE [status |-> "DoesNotExist", id |-> 0]

\* Seller.objects.get_or_create(name=..., user_id=...): the get().
LookupSeller(c, name, uid) ==
    Lookup({i \in 1..Len(c.sellers) : c.sellers[i] = [user |-> uid, name |-> name]})

\* Seller.objects.get_or_create: the create().  Seller.user is one-to-one; when
\* the insert breaks that, get_or_create repeats its get() and raises the
\* IntegrityError if the row is still not found.
CreateSeller(c, name, uid) ==
    LET row == [user |-> uid, name |-> name]
        again == LookupSeller(c, name, uid)
    IN IF \E i \in 1..Len(c.sellers) : c.sellers[i].user = uid
       THEN IF again.status = "ok" THEN [cat |-> c, id |-> again.id]
            ELSE [cat |-> [c EXCEPT !.status = "IntegrityError"], id |-> 0]
       ELSE [cat |-> [c EXCEPT !.sellers = Append(@, row)], id |-> Len(c.sellers) + 1]

\* Seller.objects.get_or_create(name=..., user_id=...) with no other request
\* between its get() and its create().
GetOrCreateSeller(c, name, uid) ==
    LET g == LookupSeller(c, name, uid)
    IN IF g.status = "ok" THEN [cat |-> c, id |-> g.id] ELSE CreateSeller(c, name, uid)

\* Category.objects.get_or_create(id=..., name=...): the create().  The id is the
\* primary key; when the insert breaks it, get_or_create repeats its get().
CreateCategory(c, category) ==
    IF category \in c.categories
    THEN c
    ELSE IF \E x \in c.categories : x.id = category.id
    THEN [c EXCEPT !.status = "IntegrityError"]
    ELSE [c EXCEPT !.categories = @ \cup {category}]

\* Category.objects.get_or_create(id=..., name=...)
GetOrCreateCategory(c, category) ==
    IF category \in c.categories THEN c ELSE CreateCategory(c, category)

\* The loop over data["categories"], from entry i on.
RECURSIVE ImportCategories(_, _, _, _)
ImportCategories(c, cats, i, sellerId) ==
    IF i > Len(cats) THEN c
    ELSE LET c1 == GetOrCreateCategory(c, cats[i])
         IN IF c1.status # "ok" THEN c1
            ELSE IF "sellers" \notin CategoryAttrs
            THEN [c1 EXCEPT !.status = "AttributeError"]
            ELSE ImportCategories(
                     [c1 EXCEPT !.categorySellers = @ \cup {<<cats[i].id, sellerId>>}],
                     cats, i + 1, sellerId)

\* An import that merges: the seller's rows are kept.
KeepSellerProductInfos(c, sellerId) == c

\* A delete that leaves the rows that reference the deleted ProductInfo rows.
DeleteWithoutCascade(c, sellerId) ==
    [c EXCEPT !.productInfos = {p \in @ : p.seller # sellerId}]

\* ProductInfo.objects.filter(seller_id=...).delete(); ProductParameter.product_info
\* and OrderItem.product are on_delete=CASCADE.  The ORM deletes the referencing
\* rows and the ProductInfo rows in one transaction of its own.
DeleteSellerProductInfos(c, sellerId) ==
    LET gone == {p.id : p \in {q \in c.productInfos : q.seller = sellerId}}
    IN [c EXCEPT !.productInfos = {p \in @ : p.id \notin gone},
                 !.productParameters = {pp \in @ : pp.product_info \notin gone},
                 !.orderItems = {it \in @ : it.product \notin gone}]

\* Product.objects.get_or_create(name=..., category_id=...): the get().  Product
\* declares no unique constraint, so several rows can match.
LookupProduct(c, name, category) ==
    Lookup({i \in 1..Len(c.products) : c.products[i] = [name |-> name, category |-> category]})

\* Product.objects.get_or_create: the create().  Product.category is a foreign key.
CreateProduct(c, name, category) ==
    IF ~ \E x \in c.categories : x.id = category
    THEN [cat |-> [c EXCEPT !.status = "IntegrityError"], id |-> 0]
    ELSE [cat |-> [c EXCEPT !.products = Append(@, [name |-> name, category |-> category])],
          id |-> Len(c.products) + 1]

\* Product.objects.get_or_create(name=..., category_id=...)
GetOrCreateProduct(c, name, category) ==
    LET g == LookupProduct(c, name, category)
    IN IF g.status = "ok" THEN [cat |-> c, id |-> g.id]
       ELSE IF g.status = "MultipleObjectsReturned"
       THEN [cat |-> [c EXCEPT !.status = g.status], id |-> 0]
       ELSE CreateProduct(c, name, category)

\* Parameter.objects.get_or_create(name=...): the get().  Parameter.name is not
\* unique, so several rows can match.
LookupParameter(c, name) ==
    Lookup({i \in 1..Len(c.parameters) : c.parameters[i] = name})

\* Parameter.objects.get_or_create: the create().
CreateParameter(c, name) ==
    [cat |-> [c EXCEPT !.parameters = Append(@, name)], id |-> Len(c.parameters) + 1]

\* Parameter.objects.get_or_create(name=...)
GetOrCreateParameter(c, name) ==
    LET g == LookupParameter(c, name)
    IN IF g.status = "ok" THEN [cat |-> c, id |-> g.id]
       ELSE IF g.status = "MultipleObjectsReturned"
       THEN [cat |-> [c EXCEPT !.status = g.status], id |-> 0]
       ELSE CreateParameter(c, name)

\* ProductParameter.objects.create(...): product_info is a foreign key, so the
\* insert fails when the ProductInfo row is no longer there.
CreateProductParameter(c, productInfoId, parameterId, value) ==
    IF ~ \E p \in c.productInfos : p.id = productInfoId
    THEN [c EXCEPT !.status = "IntegrityError"]
    ELSE [c EXCEPT !.productParameters = @ \cup
                       {[product_info |-> productInfoId, parameter |-> parameterId,
                         value |-> value]}]

\* The loop over item["parameters"].items(), from pair k on.
RECURSIVE ImportParameters(_, _, _, _)
ImportParameters(c, params, k, productInfoId) ==
    IF k > Len(params) THEN c
    ELSE LET r == GetOrCreateParameter(c, params[k][1])
         IN IF r.cat.status # "ok" THEN r.cat
            ELSE LET c1 == CreateProductParameter(r.cat, productInfoId, r.id, params[k][2])
                 IN IF c1.status # "ok" THEN c1
                    ELSE ImportParameters(c1, params, k + 1, productInfoId)

\* ProductInfo.objects.create(...) for one good.
CreateProductInfo(c, item, productId, sellerId) ==
    [c EXCEPT !.productInfos = @ \cup
                  {[id |-> c.nextProductInfo, name |-> item.model,
                    product |-> productId, seller |-> sellerId,
                    quantity |-> item.quantity, price |-> item.price,
                    price_rrc |-> item.price_rrc, article |-> item.id]},
              !.nextProductInfo = @ + 1]

\* The loop over data["goods"], from entry i on.
RECURSIVE ImportGoods(_, _, _, _)
ImportGoods(c, goods, i, sellerId) ==
    IF i > Len(goods) THEN c
    ELSE LET item == goods[i]
             r == GetOrCreateProduct(c, item.name, item.category)
         IN IF r.cat.status # "ok" THEN r.cat
            ELSE LET c1 == CreateProductInfo(r.cat, item, r.id, sellerId)
                 IN IF ~ item.hasParameters
                    THEN [c1 EXCEPT !.status = "KeyError"]
                    ELSE LET c2 == ImportParameters(c1, item.parameters, 1, c.nextProductInfo)
                         IN IF c2.status # "ok" THEN c2
                            ELSE ImportGoods(c2, goods, i + 1, sellerId)

\* The body of the handler once the document is loaded, with no other request
\* between its statements.
ImportDocument(c, data, uid) ==
    LET s == GetOrCreateSeller(c, data.seller, uid)
    IN IF s.cat.status # "ok" THEN s.cat
       ELSE LET c1 == ImportCategories(s.cat, data.categories, 1, s.id)
            IN IF c1.status # "ok" THEN c1
               ELSE ImportGoods(DeleteSellerProductInfos(c1, s.id), data.goods, 1, s.id)

\* ------------------------------------------------ CatalogView.post, by statement
\* No handler opens a transaction: every ORM call of CatalogView.post commits on
\* its own, and the statements of other requests run between them.  A request in
\* progress is the position of its worker (pc) with the handler's local variables:
\* seller, the index g of the good and k of the parameter pair, product, and
\* product_info (info).  first, listed and after record the next ProductInfo id,
\* the listings and the last response when the request began; the handler does
\* not read them.
\* What a ProductInfo row lists: its fields without the row id, and its parameters.
ListingOf(p) ==
    [product |-> p.product, seller |-> p.seller, name |-> p.name,
     quantity |-> p.quantity, price |-> p.price, price_rrc |-> p.price_rrc,
     article |-> p.article,
     parameters |-> {<<parameters[pp.parameter], pp.value>> :
                         pp \in {x \in productParameters : x.product_info = p.id}}]

Listings == {ListingOf(p) : p \in productInfos}

ListingCount(l) == Cardinality({p \in productInfos : ListingOf(p) = l})

\* The listings with the number of rows that give each.
ListingBag == [l \in Listings |-> ListingCount(l)]

ImportRequest(u, url) ==
    [phase |-> "import", op |-> "catalog_post", user |-> u, args |-> <<url>>,
     pc |-> "seller_get", status |-> "ok", seller |-> 0, ci |-> 1, g |-> 1, k |-> 1,
     product |-> 0, info |-> 0, parameter |-> 0, first |-> nextProductInfo,
     listed |-> ListingBag, after |-> resp]

ImportGoto(c, p, pc) == [cat |-> c, req |-> [p EXCEPT !.pc = pc]]

ImportDone(c, p, status) == [cat |-> c, req |-> [p EXCEPT !.pc = "done", !.status = status]]

\* The handler's own code from the top of the categories loop to its next ORM call.
ToNextCategory(c, p, data) ==
    IF p.ci <= Len(data.categories) THEN ImportGoto(c, p, "category_get")
    ELSE ImportGoto(c, p, "delete")

\* category_object.sellers.add(seller.id); category_object.save()
AfterCategory(c, p, data) ==
    IF "sellers" \notin CategoryAttrs THEN ImportDone(c, p, "AttributeError")
    ELSE ToNextCategory([c EXCEPT !.categorySellers =
                                      @ \cup {<<data.categories[p.ci].id, p.seller>>}],
                        [p EXCEPT !.ci = @ + 1], data)

\* The handler's own code from the top of the goods loop to its next ORM call.
ToNextGood(c, p, data) ==
    IF p.g <= Len(data.goods) THEN ImportGoto(c, p, "product_get")
    ELSE ImportDone(c, p, "ok")

\* The handler's own code from the top of the parameters loop of good g to its
\* next ORM call: item["parameters"] raises KeyError when the key is missing.
ToNextParameter(c, p, data) ==
    LET item == data.goods[p.g]
    IN IF ~ item.hasParameters THEN ImportDone(c, p, "KeyError")
       ELSE IF p.k <= Len(item.parameters) THEN ImportGoto(c, p, "parameter_get")
       ELSE ToNextGood(c, [p EXCEPT !.g = @ + 1, !.k = 1], data)

\* The ORM call at p.pc, applied to the tables c, and the handler's own code up
\* to the next ORM call or to the response.
ImportStatement(c, p) ==
    LET data == Docs[p.args[1].doc]
        item == data.goods[p.g]
    IN CASE p.pc = "seller_get" ->
                LET g == LookupSeller(c, data.seller, p.user)
                IN IF g.status = "ok"
                   THEN ToNextCategory(c, [p EXCEPT !.seller = g.id], data)
                   ELSE ImportGoto(c, p, "seller_create")
         [] p.pc = "seller_create" ->
                LET r == CreateSeller(c, data.seller, p.user)
                IN IF r.cat.status # "ok" THEN ImportDone(c, p, r.cat.status)
                   ELSE ToNextCategory(r.cat, [p EXCEPT !.seller = r.id], data)
         [] p.pc = "category_get" ->
                IF data.categories[p.ci] \in c.categories
                THEN AfterCategory(c, p, data)
                ELSE ImportGoto(c, p, "category_create")
         [] p.pc = "category_create" ->
                LET c1 == CreateCategory(c, data.categories[p.ci])
                IN IF c1.status # "ok" THEN ImportDone(c, p, c1.status)
                   ELSE AfterCategory(c1, p, data)
         [] p.pc = "delete" ->
                ToNextGood(DeleteSellerProductInfos(c, p.seller), p, data)
         [] p.pc = "product_get" ->
                LET g == LookupProduct(c, item.name, item.category)
                IN IF g.status = "ok"
                   THEN ImportGoto(c, [p EXCEPT !.product = g.id], "info_create")
                   ELSE IF g.status = "MultipleObjectsReturned"
                   THEN ImportDone(c, p, g.status)
                   ELSE ImportGoto(c, p, "product_create")
         [] p.pc = "product_create" ->
                LET r == CreateProduct(c, item.name, item.category)
                IN IF r.cat.status # "ok" THEN ImportDone(c, p, r.cat.status)
                   ELSE ImportGoto(r.cat, [p EXCEPT !.product = r.id], "info_create")
         [] p.pc = "info_create" ->
                ToNextParameter(CreateProductInfo(c, item, p.product, p.seller),
                                [p EXCEPT !.info = c.nextProductInfo], data)
         [] p.pc = "parameter_get" ->
                LET g == LookupParameter(c, item.parameters[p.k][1])
                IN IF g.status = "ok"
                   THEN ImportGoto(c, [p EXCEPT !.parameter = g.id], "parameter_value")
                   ELSE IF g.status = "MultipleObjectsReturned"
                   THEN ImportDone(c, p, g.status)
                   ELSE ImportGoto(c, p, "parameter_create")
         [] p.pc = "parameter_create" ->
                LET r == CreateParameter(c, item.parameters[p.k][1])
                IN ImportGoto(r.cat, [p EXCEPT !.parameter = r.id], "parameter_value")
         [] p.pc = "parameter_value" ->
                LET c1 == CreateProductParameter(c, p.info, p.parameter,
                                                 item.parameters[p.k][2])
                IN IF c1.status # "ok" THEN ImportDone(c, p, c1.status)
                   ELSE ToNextParameter(c1, [p EXCEPT !.k = @ + 1], data)

\* CatalogView.post up to its first ORM call: the checks of the caller and of
\* the url, and the loading of the document.
CatalogBegin(w, u, url) ==
    /\ pending[w] = Idle
    /\ url.kind = "doc" =>
           nextProductInfo + Len(Docs[url.doc].goods) - 1 <= MaxProductInfos
    /\ IF u = Anonymous \/ UserType(u) # "seller" \/ url.kind # "doc"
       THEN /\ resp' = Response("catalog_post", u, <<url>>,
                                IF u = Anonymous \/ UserType(u) # "seller" THEN "403"
                                ELSE IF url.kind = "invalid" THEN "ValidationError"
                                ELSE "not_specified", 0, {})
            /\ UNCHANGED pending
       ELSE /\ pending' = [pending EXCEPT ![w] = ImportRequest(u, url)]
            /\ resp' = NoResponse
    /\ UNCHANGED <<authVars, storeVars>>

\* Since worker w received its request no other request has been received or
\* answered.
AloneSince(w) ==
    /\ resp = NoResponse
    /\ \A v \in Workers \ {w} : pending[v] = Idle

\* The next ORM call of the import worker w is serving, and its response when
\* that call was the last.
CatalogStatement(w) ==
    /\ pending[w].phase = "import"
    /\ pending[w].pc = "info_create" => nextProductInfo <= MaxProductInfos
    /\ LET r == ImportStatement(Catalog, pending[w])
       IN /\ sellers' = r.cat.sellers
          /\ categories' = r.cat.categories
          /\ categorySellers' = r.cat.categorySellers
          /\ products' = r.cat.products
          /\ productInfos' = r.cat.productInfos
          /\ nextProductInfo' = r.cat.nextProductInfo
          /\ parameters' = r.cat.parameters
          /\ productParameters' = r.cat.productParameters
          /\ orderItems' = r.cat.orderItems
          /\ IF r.req.pc = "done"
             THEN /\ pending' = [pending EXCEPT ![w] = Idle]
                  /\ resp' = [Response("catalog_post", r.req.user, r.req.args,
                                       r.req.status, 0, {})
                                 EXCEPT !.alone = AloneSince(w),
                                        !.repeated = /\ AloneSince(w)
                                                     /\ r.req.after.op = "catalog_post"
                                                     /\ r.req.after.alone
                                                     /\ r.req.after.user = r.req.user
                                                     /\ r.req.after.args = r.req.args]
             ELSE /\ pending' = [pending EXCEPT ![w] = r.req]
                  /\ UNCHANGED resp
    /\ UNCHANGED <<authVars, contacts, orders, nextOrderItem, sent>>

\* ------------------------------------------------ admin.py: ParameterAdmin
\* The admin site's add form of Parameter inserts a row; Parameter.name is not
\* unique, so the name can be one that is already there.  The response leads to
\* the new row (count is its id).
AdminAddParameter(name) ==
    /\ Len(parameters) < MaxParameters
    /\ parameters' = Append(parameters, name)
    /\ resp' = Response("admin_parameter", Anonymous, <<name>>, "ok",
                         Len(parameters) + 1, {})
    /\ UNCHANGED <<authVars, pending, contacts, sellers, categories, categorySellers,
                   products, productInfos, nextProductInfo, productParameters,
                   orders, orderItems, nextOrderItem, sent>>


\* ------------------------------------------------ the request payloads
\* request.data["items"] of an add: absent, not JSON, or a JSON list of entries.
AddEntry(productInfo, quantity) == [product_info |-> productInfo, quantity |-> quantity]

AddPayloads ==
    {[kind |-> "missing", items |-> <<>>], [kind |-> "malformed", items |-> <<>>],
     [kind |-> "list", items |-> <<>>]}
        \cup {[kind |-> "list", items |-> <<AddEntry(p, 1)>>] : p \in 1..MaxProductInfos}
        \cup {[kind |-> "list", items |-> <<AddEntry(p, 1), AddEntry(p + 1, 1)>>] :
                  p \in 1..(MaxProductInfos - 1)}

\* One element of the comma-separated list of a delete: digits or not.
Token(digit, id) == [digit |-> digit, id |-> id]

DeletePayloads ==
    {<<>>, <<Token(FALSE, 0)>>}
        \cup {<<Token(TRUE, i)>> : i \in 1..MaxOrderItems}
        \cup {<<Token(TRUE, i), Token(TRUE, i + 1)>> : i \in 1..(MaxOrderItems - 1)}
        \cup {<<Token(FALSE, 0), Token(TRUE, 1)>>}

\* One entry of the JSON list of an update: id and quantity with their JSON types.
PutEntry(id, idIsInt, quantity, quantityIsInt) ==
    [id |-> id, idIsInt |-> idIsInt, quantity |-> quantity,
     quantityIsInt |-> quantityIsInt]

PutPayloads ==
    {[kind |-> "missing", items |-> <<>>], [kind |-> "malformed", items |-> <<>>]}
        \cup {[kind |-> "list", items |-> <<PutEntry(i, TRUE, 2, TRUE)>>] :
                  i \in 1..MaxOrderItems}
        \cup {[kind |-> "list", items |-> <<PutEntry(i, TRUE, -1, TRUE)>>] :
                  i \in 1..MaxOrderItems}
        \cup {[kind |-> "list", items |-> <<PutEntry(1, FALSE, 2, TRUE)>>],
              [kind |-> "list", items |-> <<PutEntry(1, TRUE, 2, FALSE)>>]}
        \cup {[kind |-> "list",
               items |-> <<PutEntry(i, TRUE, 2, TRUE), PutEntry(j, TRUE, 2, TRUE)>>] :
                  i \in 1..MaxOrderItems, j \in 1..MaxOrderItems}
        \cup {[kind |-> "list",
               items |-> <<PutEntry(i, TRUE, 2, TRUE), PutEntry(i + 1, TRUE, -1, TRUE)>>] :
                  i \in 1..(MaxOrderItems - 1)}

\* ------------------------------------------------ the basket
\* A get() that never finds the basket made before.
LookupBasketFindsNone(os, uid) ==
    [status |-> "DoesNotExist", orders |-> os, id |-> 0]

\* The get() of get_or_create: the one basket row of the user, or none, or many.
LookupBasket(os, uid) ==
    LET found == {i \in 1..Len(os) : os[i].user_id = uid /\ os[i].state = "basket"}
    IN IF Cardinality(found) = 1
       THEN [status |-> "ok", orders |-> os, id |-> CHOOSE i \in found : TRUE]
       ELSE IF Cardinality(found) > 1
       THEN [status |-> "MultipleObjectsReturned", orders |-> os, id |-> 0]
       ELSE [status |-> "DoesNotExist", orders |-> os, id |-> 0]

\* The create() of get_or_create.  Order.user is a foreign key to Contact: the
\* insert needs the Contact whose id is the caller's user id.  Order declares no
\* unique constraint, so nothing else makes the insert fail.
CreateBasket(os, uid) ==
    IF ~ ContactExists(uid)
    THEN [status |-> "IntegrityError", orders |-> os, id |-> 0]
    ELSE [status |-> "ok",
          orders |-> Append(os, [user_id |-> uid, contact |-> 0, state |-> "basket"]),
          id |-> Len(os) + 1]

\* Order.objects.get_or_create(user_id=request.user.id, state="basket"), run
\* without another request in between.
GetOrCreateBasket(os, uid) ==
    LET g == LookupBasket(os, uid)
    IN IF g.status = "DoesNotExist" THEN CreateBasket(os, uid) ELSE g

\* OrderItemSerializer(data=order_item).is_valid()
OrderItemSerializerIsValid(entry, basketId) ==
    /\ \E p \in productInfos : p.id = entry.product_info
    /\ entry.quantity >= 0

\* serializer.save() raises IntegrityError: the insert breaks a unique
\* constraint, or the foreign key OrderItem.product names a row that is not
\* there (any more).
OrderItemSaveRaises(items, entry, basketId) ==
    \/ /\ OrderItemUniqueTogether
       /\ \E it \in items : it.order = basketId /\ it.product = entry.product_info
    \/ ~ \E p \in productInfos : p.id = entry.product_info

\* The rows of Q(order_id=basket.id, id=order_item_id) or-ed over the ids.
BasketItemsNamed(items, basketId, ids) ==
    {it \in items : it.order = basketId /\ it.id \in ids}

\* ------------------------------------------------ BasketView, by statement
\* No handler takes a lock or opens a transaction: every ORM call commits on its
\* own, and the statements of other requests run between the get() and the
\* create() of get_or_create and between the statements that follow.  A request
\* in progress is the position of its worker (phase) with the handler's local
\* variables: the basket (found), the index i of the entry and the count so far.
\* before records the OrderItem rows when the request began; the handler does
\* not read it.
RaceRequests ==
    {[op |-> "basket_post", args |-> <<[kind |-> "list", items |-> <<AddEntry(1, 1)>>]>>],
     [op |-> "basket_put", args |-> <<[kind |-> "list",
                                       items |-> <<PutEntry(1, TRUE, 2, TRUE)>>]>>],
     [op |-> "basket_put", args |-> <<[kind |-> "list",
                                       items |-> <<PutEntry(1, TRUE, 2, TRUE),
                                                   PutEntry(2, TRUE, 2, TRUE)>>]>>],
     [op |-> "basket_delete", args |-> <<Token(TRUE, 1)>>],
     [op |-> "basket_delete", args |-> <<Token(TRUE, 1), Token(TRUE, 2)>>]}

BasketRequest(u, r) ==
    [phase |-> "looked_up", op |-> r.op, user |-> u, args |-> r.args, found |-> 0,
     i |-> 1, count |-> 0, before |-> orderItems]

\* request.data has no items, or an empty string.
ItemsMissing(r) ==
    IF r.op = "basket_delete" THEN r.args = <<>> ELSE r.args[1].kind = "missing"

BasketGoto(p, phase) == [done |-> FALSE, status |-> "none", count |-> 0,
                         req |-> [p EXCEPT !.phase = phase]]

BasketAnswer(p, status, count) == [done |-> TRUE, status |-> status, count |-> count,
                                   req |-> p]

\* The ids a delete names: the elements of the list that are digits.
NamedIds(tokens) == {tokens[k].id : k \in {j \in 1..Len(tokens) : tokens[j].digit}}

\* The loop of BasketView.put from entry p.i to its next UPDATE, or to the
\* response after the last entry.
RECURSIVE ToNextUpdate(_)
ToNextUpdate(p) ==
    LET entries == p.args[1].items
    IN IF p.i > Len(entries) THEN BasketAnswer(p, "ok", p.count)
       ELSE IF entries[p.i].idIsInt /\ entries[p.i].quantityIsInt
       THEN BasketGoto(p, "update")
       ELSE ToNextUpdate([p EXCEPT !.i = @ + 1])

\* The handler's own code from get_or_create to its next ORM call, or to the
\* response when there is none.
WithBasket(p) ==
    IF p.op = "basket_delete"
    THEN IF NamedIds(p.args) = {} THEN BasketAnswer(p, "not_specified", 0)
         ELSE BasketGoto(p, "delete")
    ELSE IF p.args[1].kind = "malformed" THEN BasketAnswer(p, "UnboundLocalError", 0)
    ELSE IF p.op = "basket_put" THEN ToNextUpdate(p)
    ELSE IF Len(p.args[1].items) = 0 THEN BasketAnswer(p, "not_specified", 0)
    ELSE BasketGoto(p, "is_valid")

\* The handler up to the get() of get_or_create, and from there to its next
\* ORM call when the get() found the basket.
BasketBegin(w, u, r) ==
    /\ pending[w] = Idle
    /\ LET g == LookupBasket(orders, u)
           a == WithBasket([BasketRequest(u, r) EXCEPT !.found = g.id])
       IN IF u = Anonymous \/ ItemsMissing(r)
          THEN /\ resp' = Response(r.op, u, r.args,
                                   IF u = Anonymous THEN "403" ELSE "not_specified", 0, {})
               /\ UNCHANGED pending
          ELSE IF g.status = "MultipleObjectsReturned"
          THEN /\ resp' = Response(r.op, u, r.args, g.status, 0, {})
               /\ UNCHANGED pending
          ELSE IF g.status = "DoesNotExist"
          THEN /\ pending' = [pending EXCEPT ![w] = BasketRequest(u, r)]
               /\ resp' = NoResponse
          ELSE IF a.done
          THEN /\ resp' = Response(r.op, u, r.args, a.status, a.count, {})
               /\ UNCHANGED pending
          ELSE /\ pending' = [pending EXCEPT ![w] = a.req]
               /\ resp' = NoResponse
    /\ UNCHANGED <<authVars, storeVars>>

\* The create() of get_or_create, after a get() that found no basket.
BasketCreate(w) ==
    /\ pending[w].phase = "looked_up"
    /\ Len(orders) < MaxOrders
    /\ LET p == pending[w]
           b == CreateBasket(orders, p.user)
           a == WithBasket([p EXCEPT !.found = b.id])
       IN /\ orders' = b.orders
          /\ IF b.status # "ok"
             THEN /\ resp' = Response(p.op, p.user, p.args, b.status, 0, {})
                  /\ pending' = [pending EXCEPT ![w] = Idle]
             ELSE IF a.done
             THEN /\ resp' = Response(p.op, p.user, p.args, a.status, a.count, {})
                  /\ pending' = [pending EXCEPT ![w] = Idle]
             ELSE /\ pending' = [pending EXCEPT ![w] = a.req]
                  /\ UNCHANGED resp
    /\ UNCHANGED <<authVars, contacts, catalogVars, orderItems, nextOrderItem, sent>>

\* The ORM call at p.phase applied to the OrderItem rows, and the handler's own
\* code up to the next ORM call or to the response.
BasketStatementOn(items, p) ==
    CASE p.phase = "is_valid" ->
             \* the return after the first entry sits inside the loop
             IF OrderItemSerializerIsValid(p.args[1].items[1], p.found)
             THEN [orderItems |-> items, next |-> BasketGoto(p, "save")]
             ELSE [orderItems |-> items, next |-> BasketAnswer(p, "ok", 0)]
      [] p.phase = "save" ->
             \* OrderItem.order is a foreign key too: the basket can be gone
             LET entry == p.args[1].items[1]
             IN IF OrderItemSaveRaises(items, entry, p.found) \/ orders[p.found] = NoOrder
                THEN [orderItems |-> items, next |-> BasketAnswer(p, "integrity_error", 0)]
                ELSE [orderItems |-> items \cup
                                        {[id |-> nextOrderItem, order |-> p.found,
                                          product |-> entry.product_info,
                                          quantity |-> entry.quantity]},
                      next |-> BasketAnswer(p, "ok", 1)]
      [] p.phase = "delete" ->
             LET gone == BasketItemsNamed(items, p.found, NamedIds(p.args))
             IN [orderItems |-> items \ gone,
                 next |-> BasketAnswer(p, "ok", Cardinality(gone))]
      [] p.phase = "update" ->
             LET e == p.args[1].items[p.i]
                 rows == {it \in items : it.order = p.found /\ it.id = e.id}
             IN IF rows # {} /\ e.quantity < 0
                THEN [orderItems |-> items, next |-> BasketAnswer(p, "IntegrityError", 0)]
                ELSE [orderItems |-> (items \ rows) \cup
                                         {[it EXCEPT !.quantity = e.quantity] : it \in rows},
                      next |-> ToNextUpdate([p EXCEPT !.i = @ + 1,
                                                      !.count = @ + Cardinality(rows)])]

\* The next ORM call of the basket request worker w is serving, and its response
\* when that call was the last.
BasketStatement(w) ==
    /\ pending[w].phase \in {"is_valid", "save", "delete", "update"}
    /\ pending[w].phase = "save" => nextOrderItem <= MaxOrderItems
    /\ LET p == pending[w]
           r == BasketStatementOn(orderItems, p)
       IN /\ orderItems' = r.orderItems
          /\ nextOrderItem' = IF \E it \in r.orderItems : it.id = nextOrderItem
                               THEN nextOrderItem + 1 ELSE nextOrderItem
          /\ IF r.next.done
             THEN /\ resp' = Response(p.op, p.user, p.args, r.next.status,
                                      r.next.count, {})
                  /\ pending' = [pending EXCEPT ![w] = Idle]
             ELSE /\ pending' = [pending EXCEPT ![w] = r.next.req]
                  /\ UNCHANGED resp
    /\ UNCHANGED <<authVars, contacts, catalogVars, orders, sent>>

\* ------------------------------------------------ the listings
\* The rows the aggregate joins for order o: its OrderItems with their
\* ProductInfo (an inner join on the item's ProductInfo foreign key).
JoinedItems(o) ==
    {j \in [item : {x \in orderItems : x.order = o}, info : productInfos] :
         j.info.id = j.item.product}

RECURSIVE SumQuantityTimesPrice(_)
SumQuantityTimesPrice(rows) ==
    IF rows = {} THEN 0
    ELSE LET j == CHOOSE x \in rows : TRUE
         IN j.item.quantity * j.info.price + SumQuantityTimesPrice(rows \ {j})

\* Sum(F("ordered_items__quantity") * F("ordered_items__product_info__price")),
\* grouped by order: SQL SUM over no rows is NULL.
Annotate(o, rows) ==
    [id |-> o, is_null |-> rows = {}, total_sum |-> SumQuantityTimesPrice(rows)]

\* The names the three listings' annotate() resolves on OrderItem.
ListingResolves ==
    {"quantity", "product_info"} \subseteq OrderItemFields

BasketGet(u) ==
    /\ IF u = Anonymous
       THEN resp' = Response("basket_get", u, <<>>, "403", 0, {})
       ELSE IF ~ ListingResolves
       THEN resp' = Response("basket_get", u, <<>>, "FieldError", 0, {})
       ELSE resp' = Response("basket_get", u, <<>>, "ok", 0,
                {Annotate(o, JoinedItems(o)) :
                     o \in {i \in 1..Len(orders) :
                                orders[i].user_id = u /\ orders[i].state = "basket"}})
    /\ UNCHANGED <<authVars, pending, contacts, catalogVars, orders, orderItems, nextOrderItem, sent>>

OrderGet(u) ==
    /\ IF u = Anonymous
       THEN resp' = Response("order_get", u, <<>>, "403", 0, {})
       ELSE IF ~ ListingResolves
       THEN resp' = Response("order_get", u, <<>>, "FieldError", 0, {})
       ELSE resp' = Response("order_get", u, <<>>, "ok", 0,
                {Annotate(o, JoinedItems(o)) :
                     o \in {i \in 1..Len(orders) :
                                orders[i].user_id = u /\ orders[i].state # "basket"}})
    /\ UNCHANGED <<authVars, pending, contacts, catalogVars, orders, orderItems, nextOrderItem, sent>>

\* The filter on ordered_items__product_info__seller__user_id joins the order's
\* items once; annotate() reuses that join, so the sum runs over the joined rows
\* that pass the filter.
SellerJoinedItems(o, u) ==
    {j \in JoinedItems(o) :
         \E i \in 1..Len(sellers) : i = j.info.seller /\ sellers[i].user = u}

SellerOrdersGet(u) ==
    /\ IF u = Anonymous \/ UserType(u) # "seller"
       THEN resp' = Response("seller_orders_get", u, <<>>, "403", 0, {})
       ELSE IF ~ ListingResolves
       THEN resp' = Response("seller_orders_get", u, <<>>, "FieldError", 0, {})
       ELSE resp' = Response("seller_orders_get", u, <<>>, "ok", 0,
                {Annotate(o, SellerJoinedItems(o, u)) :
                     o \in {i \in 1..Len(orders) :
                                /\ orders[i].state # "basket"
                                /\ SellerJoinedItems(i, u) # {}}})
    /\ UNCHANGED <<authVars, pending, contacts, catalogVars, orders, orderItems, nextOrderItem, sent>>

\* ------------------------------------------------ OrderView.post
\* request.data of a place-order: the id (digits or not) and the contact id.
OrderPostArgs ==
    {[present |-> FALSE, id |-> Token(FALSE, 0), contact |-> 0]}
        \cup {[present |-> TRUE, id |-> Token(FALSE, 0), contact |-> 1]}
        \cup {[present |-> TRUE, id |-> Token(TRUE, o), contact |-> c] :
                  o \in 1..MaxOrders, c \in {1, MaxContacts + 1}}

\* An update that does not look contact_id up and writes both values.
OrderUpdateSkipsFieldCheck(os, uid, id, contact) ==
    LET rows == {i \in 1..Len(os) : os[i].user_id = uid /\ i = id}
    IN [status |-> "ok",
        orders |-> [i \in 1..Len(os) |->
                       IF i \in rows
                       THEN [os[i] EXCEPT !.contact = contact, !.state = "new"]
                       ELSE os[i]],
        is_updated |-> Cardinality(rows)]

\* An update that drops the keyword it cannot resolve and writes the state alone.
OrderUpdateStateOnly(os, uid, id, contact) ==
    LET rows == {i \in 1..Len(os) : os[i].user_id = uid /\ i = id}
    IN [status |-> "ok",
        orders |-> [i \in 1..Len(os) |->
                       IF i \in rows THEN [os[i] EXCEPT !.state = "new"] ELSE os[i]],
        is_updated |-> Cardinality(rows)]

\* Order.objects.filter(user_id=..., id=...).update(contact_id=..., state="new")
\* update() looks every keyword up among the model's fields before it runs.
OrderUpdate(os, uid, id, contact) ==
    LET rows == {i \in 1..Len(os) : os[i].user_id = uid /\ i = id}
    IN IF "contact_id" \notin OrderFields
       THEN [status |-> "FieldDoesNotExist", orders |-> os, is_updated |-> 0]
       ELSE IF rows # {} /\ ~ ContactExists(contact)
       THEN [status |-> "IntegrityError", orders |-> os, is_updated |-> 0]
       ELSE [status |-> "ok",
             orders |-> [i \in 1..Len(os) |->
                            IF i \in rows
                            THEN [os[i] EXCEPT !.contact = contact, !.state = "new"]
                            ELSE os[i]],
             is_updated |-> Cardinality(rows)]

\* A handler that sends new_order although its update raised.
OrderPostNotifiesOnError(u, a) ==
    /\ sent < MaxSent
    /\ IF u = Anonymous \/ ~ a.present \/ ~ a.id.digit
       THEN /\ resp' = Response("order_post", u, <<a>>,
                                IF u = Anonymous THEN "403" ELSE "not_specified", 0, {})
            /\ UNCHANGED <<orders, sent>>
       ELSE LET r == OrderUpdate(orders, u, a.id.id, a.contact)
            IN /\ orders' = r.orders
               /\ IF r.status = "IntegrityError"
                  THEN /\ resp' = Response("order_post", u, <<a>>, "arguments_incorrect", 0, {})
                       /\ UNCHANGED sent
                  ELSE IF r.status # "ok"
                  THEN /\ resp' = Response("order_post", u, <<a>>, r.status, 0, {})
                       /\ sent' = sent + 1
                  ELSE IF r.is_updated > 0
                  THEN /\ sent' = sent + 1
                       /\ resp' = Response("order_post", u, <<a>>, "ok", r.is_updated, {})
                  ELSE /\ resp' = Response("order_post", u, <<a>>, "not_specified", 0, {})
                       /\ UNCHANGED sent
    /\ UNCHANGED <<authVars, pending, contacts, catalogVars, orderItems, nextOrderItem>>

\* OrderView.post: one UPDATE, then the signal when it changed a row.
OrderPost(u, a) ==
    /\ sent < MaxSent
    /\ IF u = Anonymous \/ ~ a.present \/ ~ a.id.digit
       THEN /\ resp' = Response("order_post", u, <<a>>,
                                IF u = Anonymous THEN "403" ELSE "not_specified", 0, {})
            /\ UNCHANGED <<orders, sent>>
       ELSE LET r == OrderUpdate(orders, u, a.id.id, a.contact)
            IN /\ orders' = r.orders
               /\ IF r.status = "IntegrityError"
                  THEN /\ resp' = Response("order_post", u, <<a>>, "arguments_incorrect", 0, {})
                       /\ UNCHANGED sent
                  ELSE IF r.status # "ok"
                  THEN /\ resp' = Response("order_post", u, <<a>>, r.status, 0, {})
                       /\ UNCHANGED sent
                  ELSE IF r.is_updated > 0
                  THEN /\ sent' = sent + 1
                       /\ resp' = Response("order_post", u, <<a>>, "ok", r.is_updated, {})
                  ELSE /\ resp' = Response("order_post", u, <<a>>, "not_specified", 0, {})
                       /\ UNCHANGED sent
    /\ UNCHANGED <<authVars, pending, contacts, catalogVars, orderItems, nextOrderItem>>

\* ------------------------------------------------ admin.py: OrderAdmin
\* The admin site's change form of a registered model saves any of its fields.
AdminStates == STATE_CHOICES

AdminSetOrderState(o, state) ==
    /\ o \in 1..Len(orders)
    /\ orders[o] # NoOrder
    /\ state \in STATE_CHOICES
    /\ orders[o].state # state
    /\ orders' = [orders EXCEPT ![o].state = state]
    /\ resp' = Response("admin_order", Anonymous, <<>>, "ok", 0, {})
    /\ UNCHANGED <<authVars, pending, contacts, catalogVars, orderItems, nextOrderItem, sent>>

\* ------------------------------------------------ ContactView
\* request.data of a new contact: address and phone present or not, whether the
\* serializer accepts them, and the address.
ContactPayloads ==
    {[present |-> FALSE, valid |-> TRUE, address |-> "home"],
     [present |-> TRUE, valid |-> FALSE, address |-> "home"],
     [present |-> TRUE, valid |-> TRUE, address |-> "home"]}

\* ContactSerializer(...).is_valid()
ContactSerializerIsValid(p) == p.valid

\* ContactView.post: an invalid serializer builds its response without
\* returning it and falls through to the last return.
ContactPost(u, p) ==
    /\ (u # Anonymous /\ p.present /\ ContactSerializerIsValid(p)) =>
           Len(contacts) < MaxContacts
    /\ IF u = Anonymous
       THEN /\ resp' = Response("contact_post", u, <<p>>, "403", 0, {})
            /\ UNCHANGED contacts
       ELSE IF ~ p.present \/ ~ ContactSerializerIsValid(p)
       THEN /\ resp' = Response("contact_post", u, <<p>>, "not_specified", 0, {})
            /\ UNCHANGED contacts
       ELSE /\ contacts' = Append(contacts, [user |-> u, address |-> p.address])
            /\ resp' = Response("contact_post", u, <<p>>, "ok", 0, {})
    /\ UNCHANGED <<authVars, pending, catalogVars, orders, orderItems, nextOrderItem, sent>>

\* The comma-separated list of a contact delete.
ContactDeletePayloads ==
    {<<>>, <<Token(FALSE, 0)>>} \cup {<<Token(TRUE, i)>> : i \in 1..MaxContacts}

\* Contact.objects.filter(query).delete(): Order.user and OrderItem.order are
\* on_delete=CASCADE, and delete() counts every row it removed.
DeleteContacts(gone) ==
    LET goneOrders == {i \in 1..Len(orders) : orders[i] # NoOrder /\ orders[i].user_id \in gone}
        goneItems == {it \in orderItems : it.order \in goneOrders}
    IN [contacts |-> [i \in 1..Len(contacts) |-> IF i \in gone THEN NoContact ELSE contacts[i]],
        orders |-> [i \in 1..Len(orders) |-> IF i \in goneOrders THEN NoOrder ELSE orders[i]],
        orderItems |-> orderItems \ goneItems,
        count |-> Cardinality(gone) + Cardinality(goneOrders) + Cardinality(goneItems)]

ContactDelete(u, tokens) ==
    /\ LET ids == {tokens[k].id : k \in {j \in 1..Len(tokens) : tokens[j].digit}}
           gone == {i \in ids : ContactExists(i) /\ contacts[i].user = u}
           d == DeleteContacts(gone)
       IN IF u = Anonymous \/ ids = {}
          THEN /\ resp' = Response("contact_delete", u, tokens,
                                   IF u = Anonymous THEN "403" ELSE "not_specified", 0, {})
               /\ UNCHANGED <<contacts, orders, orderItems>>
          ELSE /\ contacts' = d.contacts
               /\ orders' = d.orders
               /\ orderItems' = d.orderItems
               /\ resp' = Response("contact_delete", u, tokens, "ok", d.count, {})
    /\ UNCHANGED <<authVars, pending, catalogVars, nextOrderItem, sent>>

\* request.data of a contact update: the id (present, digits or not), whether
\* the serializer accepts the rest, and the new address.
ContactPutArgs ==
    {[present |-> FALSE, id |-> Token(FALSE, 0), valid |-> TRUE, address |-> "moved"],
     [present |-> TRUE, id |-> Token(FALSE, 0), valid |-> TRUE, address |-> "moved"],
     [present |-> TRUE, id |-> Token(TRUE, 1), valid |-> FALSE, address |-> "moved"]}
        \cup {[present |-> TRUE, id |-> Token(TRUE, i), valid |-> TRUE, address |-> "moved"] :
                  i \in 1..MaxContacts}

\* The handler runs two ORM calls, each committed on its own: the SELECT of the
\* contact (.first()) and the save() of the serializer.  A request in progress
\* holds the Contact row as it was read.
ContactPutRequest(u, a) ==
    [phase |-> "contact_put", op |-> "contact_put", user |-> u, args |-> <<a>>,
     found |-> a.id.id, loaded |-> contacts[a.id.id]]

\* ContactView.put up to the SELECT of the contact and the validation of the
\* serializer; an invalid serializer builds its response without returning it and
\* falls through to the last return.
ContactPutBegin(w, u, a) ==
    /\ pending[w] = Idle
    /\ IF u = Anonymous
       THEN /\ resp' = Response("contact_put", u, <<a>>, "403", 0, {})
            /\ UNCHANGED pending
       ELSE IF /\ a.present /\ a.id.digit
               /\ ContactExists(a.id.id) /\ contacts[a.id.id].user = u
               /\ ContactSerializerIsValid(a)
       THEN /\ pending' = [pending EXCEPT ![w] = ContactPutRequest(u, a)]
            /\ resp' = NoResponse
       ELSE /\ resp' = Response("contact_put", u, <<a>>, "not_specified", 0, {})
            /\ UNCHANGED pending
    /\ UNCHANGED <<authVars, storeVars>>

\* Model.save() of the loaded contact: an UPDATE of every field of the row with
\* the values of the instance, and an INSERT of the row under its id when the
\* UPDATE matches no row.
SaveContact(cs, id, row) == [cs EXCEPT ![id] = row]

\* serializer.save() of the request worker w is serving, and its response.
ContactPutSave(w) ==
    /\ pending[w].phase = "contact_put"
    /\ LET p == pending[w]
       IN /\ contacts' = SaveContact(contacts, p.found,
                                     [p.loaded EXCEPT !.address = p.args[1].address])
          /\ resp' = Response("contact_put", p.user, p.args, "ok", 0, {})
          /\ pending' = [pending EXCEPT ![w] = Idle]
    /\ UNCHANGED <<authVars, catalogVars, orders, orderItems, nextOrderItem, sent>>

\* ------------------------------------------------ SignInView.post
\* request.data of a registration: the three keys present or not, whether the
\* password passes validate_password, and the email.
Emails == {"one@shop", "three@shop", "four@shop"}

SignInPayloads ==
    {[present |-> FALSE, passwordOk |-> TRUE, email |-> "three@shop"],
     [present |-> TRUE, passwordOk |-> FALSE, email |-> "three@shop"]}
        \cup {[present |-> TRUE, passwordOk |-> TRUE, email |-> e] : e \in Emails}

\* UserSerializer(data=request.data).is_valid(): User.email is unique.
UserSerializerIsValid(us, email) ==
    \A i \in 1..Len(us) : us[i].email # email

\* The receiver of new_user_registered: a ConfirmEmailToken for the new user,
\* whose save() takes its key from the token generator.
NewUserRegistered(ts, uid, key) ==
    ts \cup {[user |-> uid, key |-> key]}

\* Model.save() of a loaded user: an UPDATE of every field of the row with the
\* values of the instance.  User.email is unique.
SaveUser(us, id, row) ==
    IF \E i \in 1..Len(us) : i # id /\ us[i].email = row.email
    THEN [status |-> "IntegrityError", users |-> us]
    ELSE [status |-> "ok", users |-> [us EXCEPT ![id] = row]]

\* serializer.save() of a registration: the INSERT of the new row.
CreateUser(us, row) ==
    IF \E i \in 1..Len(us) : us[i].email = row.email
    THEN [status |-> "IntegrityError", users |-> us, id |-> 0]
    ELSE [status |-> "ok", users |-> Append(us, row), id |-> Len(us) + 1]

\* The handler runs four ORM calls, each committed on its own: the SELECT of
\* is_valid(), the INSERT of user_serializer.save(), the UPDATE of user.save()
\* and the receiver of new_user_registered.  A request in progress holds the
\* User instance it is creating.
SignInRequest(p) ==
    [phase |-> "sign_in", op |-> "sign_in", user |-> Anonymous, args |-> <<p>>,
     found |-> 0, pc |-> "create", loaded |-> [email |-> p.email, is_active |-> TRUE]]

\* SignInView.post up to is_valid(); without the three keys the handler returns
\* None.
SignInBegin(w, p) ==
    /\ pending[w] = Idle
    /\ Len(users) < MaxUsers
    /\ IF ~ p.present
       THEN /\ resp' = Response("sign_in", Anonymous, <<p>>, "AssertionError", 0, {})
            /\ UNCHANGED pending
       ELSE IF ~ p.passwordOk
       THEN /\ resp' = Response("sign_in", Anonymous, <<p>>, "password_error", 0, {})
            /\ UNCHANGED pending
       ELSE IF ~ UserSerializerIsValid(users, p.email)
       THEN /\ resp' = Response("sign_in", Anonymous, <<p>>, "serializer_errors", 0, {})
            /\ UNCHANGED pending
       ELSE /\ pending' = [pending EXCEPT ![w] = SignInRequest(p)]
            /\ resp' = NoResponse
    /\ UNCHANGED <<authVars, storeVars>>

\* The next ORM call of the registration worker w is serving, and its response
\* after the last.
SignInStatement(w) ==
    /\ pending[w].phase = "sign_in"
    /\ LET p == pending[w]
           created == CreateUser(users, p.loaded)
           saved == SaveUser(users, p.found, p.loaded)
       IN CASE p.pc = "create" ->
                   /\ users' = created.users
                   /\ IF created.status # "ok"
                      THEN /\ resp' = Response("sign_in", Anonymous, p.args,
                                               created.status, 0, {})
                           /\ pending' = [pending EXCEPT ![w] = Idle]
                      ELSE /\ pending' = [pending EXCEPT ![w] =
                                              [p EXCEPT !.pc = "save", !.found = created.id]]
                           /\ UNCHANGED resp
                   /\ UNCHANGED <<confirmTokens, nextKey>>
            [] p.pc = "save" ->
                   /\ users' = saved.users
                   /\ IF saved.status # "ok"
                      THEN /\ resp' = Response("sign_in", Anonymous, p.args,
                                               saved.status, 0, {})
                           /\ pending' = [pending EXCEPT ![w] = Idle]
                      ELSE /\ pending' = [pending EXCEPT ![w] = [p EXCEPT !.pc = "signal"]]
                           /\ UNCHANGED resp
                   /\ UNCHANGED <<confirmTokens, nextKey>>
            [] p.pc = "signal" ->
                   /\ confirmTokens' = NewUserRegistered(confirmTokens, p.found, nextKey)
                   /\ nextKey' = nextKey + 1
                   /\ resp' = Response("sign_in", Anonymous, p.args, "ok", 0, {})
                   /\ pending' = [pending EXCEPT ![w] = Idle]
                   /\ UNCHANGED users
    /\ UNCHANGED storeVars

\* ------------------------------------------------ ConfirmUserView.post
\* request.data of a confirmation: the two keys present or not, email and token.
ConfirmArgs ==
    {[present |-> FALSE, email |-> "three@shop", token |-> 1]}
        \cup {[present |-> TRUE, email |-> e, token |-> k] :
                  e \in Emails, k \in 1..(MaxUsers - Len(Accounts))}

\* token.delete(): a DELETE by primary key, which removes no row when the token
\* is gone already.
DeleteToken(ts, t) == ts \ {t}

\* ConfirmEmailToken.objects.filter(user__email=..., key=...)
MatchingTokens(us, ts, email, key) ==
    {t \in ts : us[t.user].email = email /\ t.key = key}

\* The handler runs four ORM calls, each committed on its own: the SELECT of the
\* token, the SELECT of token.user, the UPDATE of user.save() and the DELETE of
\* token.delete().  A request in progress holds the token row it read and, once
\* loaded, the User row as it was read.
ConfirmRequest(a, t) ==
    [phase |-> "confirm", op |-> "confirm", user |-> Anonymous, args |-> <<a>>,
     found |-> 0, pc |-> "load_user", token |-> t,
     loaded |-> [email |-> "none", is_active |-> FALSE]]

\* ConfirmUserView.post up to the SELECT of the token (.first()).
ConfirmBegin(w, a) ==
    /\ pending[w] = Idle
    /\ IF ~ a.present
       THEN /\ resp' = Response("confirm", Anonymous, <<a>>, "not_specified", 0, {})
            /\ UNCHANGED pending
       ELSE LET found == MatchingTokens(users, confirmTokens, a.email, a.token)
            IN IF found # {}
               THEN /\ pending' = [pending EXCEPT ![w] =
                                       ConfirmRequest(a, CHOOSE t \in found : TRUE)]
                    /\ resp' = NoResponse
               ELSE /\ resp' = Response("confirm", Anonymous, <<a>>, "incorrect", 0, {})
                    /\ UNCHANGED pending
    /\ UNCHANGED <<authVars, storeVars>>

\* The next ORM call of the confirmation worker w is serving, and its response
\* after the last.
ConfirmStatement(w) ==
    /\ pending[w].phase = "confirm"
    /\ LET p == pending[w]
           saved == SaveUser(users, p.token.user, [p.loaded EXCEPT !.is_active = TRUE])
       IN CASE p.pc = "load_user" ->
                   /\ pending' = [pending EXCEPT ![w] =
                                      [p EXCEPT !.pc = "save",
                                                !.loaded = users[p.token.user]]]
                   /\ UNCHANGED <<users, confirmTokens, resp>>
            [] p.pc = "save" ->
                   /\ users' = saved.users
                   /\ IF saved.status # "ok"
                      THEN /\ resp' = Response("confirm", Anonymous, p.args,
                                               saved.status, 0, {})
                           /\ pending' = [pending EXCEPT ![w] = Idle]
                      ELSE /\ pending' = [pending EXCEPT ![w] = [p EXCEPT !.pc = "delete"]]
                           /\ UNCHANGED resp
                   /\ UNCHANGED confirmTokens
            [] p.pc = "delete" ->
                   /\ confirmTokens' = DeleteToken(confirmTokens, p.token)
                   /\ resp' = Response("confirm", Anonymous, p.args, "ok", 0, {})
                   /\ pending' = [pending EXCEPT ![w] = Idle]
                   /\ UNCHANGED users
    /\ UNCHANGED <<nextKey, storeVars>>

\* ------------------------------------------------ UserDetailsView.post
\* request.data of a change of the caller's details: the password key absent,
\* failing validate_password or passing it, and the email key absent or present.
NoEmail == "absent"

UserDetailsPayloads ==
    {[password |-> "bad", email |-> "three@shop"],
     [password |-> "ok", email |-> "three@shop"]}
        \cup {[password |-> "absent", email |-> e] : e \in Emails \cup {NoEmail}}

\* UserSerializer(request.user, data=request.data, partial=True).is_valid():
\* an absent key is not validated, and User.email is unique among the other rows.
UserSerializerPartialIsValid(us, instance, email) ==
    email # NoEmail => \A i \in 1..Len(us) : i # instance => us[i].email # email

\* user_serializer.save() on the caller's instance: the validated keys are set
\* on it before its save().
UserSerializerUpdate(row, email) ==
    IF email = NoEmail THEN row ELSE [row EXCEPT !.email = email]

\* The handler runs three ORM calls, each committed on its own: the SELECT of
\* request.user by the authentication, the SELECT of is_valid() when the email
\* key is present, and the UPDATE of user_serializer.save().  A request in
\* progress holds the User row as the authentication read it.
UserDetailsRequest(u, p) ==
    [phase |-> "user_details", op |-> "user_details", user |-> u, args |-> <<p>>,
     found |-> u, pc |-> IF p.email = NoEmail THEN "save" ELSE "is_valid",
     loaded |-> users[u]]

\* UserDetailsView.post up to validate_password: request.user is the anonymous
\* user or an account that is switched on.
UserDetailsBegin(w, u, p) ==
    /\ pending[w] = Idle
    /\ u = Anonymous \/ (u \in 1..Len(users) /\ users[u].is_active)
    /\ IF u = Anonymous
       THEN /\ resp' = Response("user_details", u, <<p>>, "403", 0, {})
            /\ UNCHANGED pending
       ELSE IF p.password = "bad"
       THEN /\ resp' = Response("user_details", u, <<p>>, "password_error", 0, {})
            /\ UNCHANGED pending
       ELSE /\ pending' = [pending EXCEPT ![w] = UserDetailsRequest(u, p)]
            /\ resp' = NoResponse
    /\ UNCHANGED <<authVars, storeVars>>

\* The next ORM call of the change of details worker w is serving, and its
\* response after the last.
UserDetailsStatement(w) ==
    /\ pending[w].phase = "user_details"
    /\ LET p == pending[w]
           email == p.args[1].email
           saved == SaveUser(users, p.found, UserSerializerUpdate(p.loaded, email))
       IN CASE p.pc = "is_valid" ->
                   /\ IF ~ UserSerializerPartialIsValid(users, p.found, email)
                      THEN /\ resp' = Response("user_details", p.user, p.args,
                                               "serializer_errors", 0, {})
                           /\ pending' = [pending EXCEPT ![w] = Idle]
                      ELSE /\ pending' = [pending EXCEPT ![w] = [p EXCEPT !.pc = "save"]]
                           /\ UNCHANGED resp
                   /\ UNCHANGED users
            [] p.pc = "save" ->
                   /\ users' = saved.users
                   /\ resp' = Response("user_details", p.user, p.args, saved.status, 0, {})
                   /\ pending' = [pending EXCEPT ![w] = Idle]
    /\ UNCHANGED <<confirmTokens, nextKey, storeVars>>

\* ------------------------------------------------ admin.py: UserAdmin
\* The admin site's change form of User saves its is_active flag.
AdminSetUserActive(u, active) ==
    /\ u \in 1..Len(users)
    /\ users[u].is_active # active
    /\ users' = [users EXCEPT ![u].is_active = active]
    /\ resp' = Response("admin_user", Anonymous, <<>>, "ok", 0, {})
    /\ UNCHANGED <<confirmTokens, nextKey, pending, storeVars>>

\* ------------------------------------------------ the specifications
\* The store after seller 1 has imported document 1 (which creates the seller
\* and the category and then fails) and document 2.
EmptyCatalog ==
    [status |-> "ok", sellers |-> <<>>, categories |-> {}, categorySellers |-> {},
     products |-> <<>>, productInfos |-> {}, nextProductInfo |-> 1,
     parameters |-> <<>>, productParameters |-> {}, orderItems |-> {}]

PopulatedCatalog ==
    ImportDocument([ImportDocument(EmptyCatalog, Docs[1], 1) EXCEPT !.status = "ok"],
                   Docs[2], 1)

InitImported ==
    /\ users = Accounts
    /\ confirmTokens = {}
    /\ nextKey = 1
    /\ pending = [w \in Workers |-> Idle]
    /\ contacts = <<>>
    /\ sellers = PopulatedCatalog.sellers
    /\ categories = PopulatedCatalog.categories
    /\ categorySellers = PopulatedCatalog.categorySellers
    /\ products = PopulatedCatalog.products
    /\ productInfos = PopulatedCatalog.productInfos
    /\ nextProductInfo = PopulatedCatalog.nextProductInfo
    /\ parameters = PopulatedCatalog.parameters
    /\ productParameters = PopulatedCatalog.productParameters
    /\ orders = <<>>
    /\ orderItems = {}
    /\ nextOrderItem = 1
    /\ sent = 0
    /\ resp = Response("catalog_post", 1, <<[kind |-> "doc", doc |-> 2]>>, "ok", 0, {})

\* The requests of the basket and order handlers over the imported catalog, with
\* users adding and deleting contacts, served one after another: a request is
\* received when no other is in progress (Quiet), and the basket handlers run
\* statement by statement.  The specifications further down serve requests at
\* the same time.
BasketRequests ==
    {[op |-> "basket_post", args |-> <<payload>>] : payload \in AddPayloads}
        \cup {[op |-> "basket_put", args |-> <<payload>>] : payload \in PutPayloads}
        \cup {[op |-> "basket_delete", args |-> tokens] : tokens \in DeletePayloads}

Quiet == \A w \in Workers : pending[w] = Idle

Next ==
    \/ Quiet /\ \E u \in Users, p \in ContactPayloads : ContactPost(u, p)
    \/ Quiet /\ \E u \in Users, tokens \in ContactDeletePayloads : ContactDelete(u, tokens)
    \/ \E u \in Users, r \in BasketRequests : BasketBegin(1, u, r)
    \/ BasketCreate(1)
    \/ BasketStatement(1)
    \/ Quiet /\ \E u \in Callers : BasketGet(u)
    \/ Quiet /\ \E u \in Callers : OrderGet(u)
    \/ Quiet /\ \E u \in Callers : SellerOrdersGet(u)
    \/ Quiet /\ \E u \in Users, a \in OrderPostArgs : OrderPost(u, a)

Spec == InitImported /\ [][Next]_vars

\* Orders that leave the basket state, from a populated store: both users have
\* added a contact, and seller 1 has imported document 1 (which creates the
\* category and then fails) and document 2.  User 1 adds to the basket, both
\* users place orders and delete their contacts, and the admin site saves orders
\* with any state of STATE_CHOICES, "basket" included.
InitPopulated ==
    /\ users = Accounts
    /\ confirmTokens = {}
    /\ nextKey = 1
    /\ pending = [w \in Workers |-> Idle]
    /\ contacts = <<[user |-> 1, address |-> "home"], [user |-> 2, address |-> "home"]>>
    /\ sellers = PopulatedCatalog.sellers
    /\ categories = PopulatedCatalog.categories
    /\ categorySellers = PopulatedCatalog.categorySellers
    /\ products = PopulatedCatalog.products
    /\ productInfos = PopulatedCatalog.productInfos
    /\ nextProductInfo = PopulatedCatalog.nextProductInfo
    /\ parameters = PopulatedCatalog.parameters
    /\ productParameters = PopulatedCatalog.productParameters
    /\ orders = <<>>
    /\ orderItems = {}
    /\ nextOrderItem = 1
    /\ sent = 0
    /\ resp = Response("catalog_post", 1, <<[kind |-> "doc", doc |-> 2]>>, "ok", 0, {})

AdminRequests ==
    {[op |-> "basket_post", args |-> <<payload>>] :
         payload \in {x \in AddPayloads : Len(x.items) = 0}}

NextAdmin ==
    \/ \E r \in AdminRequests : BasketBegin(1, 1, r)
    \/ BasketCreate(1)
    \/ \E u \in Users, a \in OrderPostArgs : OrderPost(u, a)
    \/ \E o \in 1..MaxOrders, state \in AdminStates : AdminSetOrderState(o, state)
    \/ \E u \in Users, tokens \in ContactDeletePayloads : ContactDelete(u, tokens)

SpecAdmin == InitPopulated /\ [][NextAdmin]_vars

\* Catalog imports served by one worker statement by statement, with the admin
\* site adding Parameter rows: user 1 and the anonymous caller send every
\* document, user 2 (a second seller) the first two.
ParameterNames == {"Weight"}

SecondSellerUrls == {[kind |-> "doc", doc |-> i] : i \in 1..2}

NextCatalog ==
    \/ \E u \in {Anonymous, 1}, url \in Urls : CatalogBegin(1, u, url)
    \/ \E url \in SecondSellerUrls : CatalogBegin(1, 2, url)
    \/ CatalogStatement(1)
    \/ \E name \in ParameterNames : AdminAddParameter(name)

SpecCatalog == Init /\ [][NextCatalog]_vars

\* Registrations and confirmations, with accounts changing their details and
\* the admin site switching accounts on and off.
Registrants == (Len(Accounts) + 1)..MaxUsers

NextConfirm ==
    \/ \E p \in SignInPayloads : SignInBegin(1, p)
    \/ SignInStatement(1)
    \/ \E w \in Workers, a \in ConfirmArgs : ConfirmBegin(w, a)
    \/ \E w \in Workers : ConfirmStatement(w)
    \/ \E u \in Registrants \cup {Anonymous}, p \in UserDetailsPayloads :
           UserDetailsBegin(2, u, p)
    \/ UserDetailsStatement(2)
    \/ \E u \in Registrants, active \in BOOLEAN : AdminSetUserActive(u, active)

SpecConfirm == Init /\ [][NextConfirm]_vars

\* Basket requests served by two workers at once, over the populated store.
NextRace ==
    \/ \E w \in Workers, u \in Users, r \in RaceRequests : BasketBegin(w, u, r)
    \/ \E w \in Workers : BasketCreate(w)
    \/ \E w \in Workers : BasketStatement(w)

SpecRace == InitPopulated /\ [][NextRace]_vars

\* Adds and deletes served by one worker statement by statement, with the admin
\* site moving orders to "new" and users deleting and changing Contact 1
\* between the statements.
DeleteRequests ==
    {[op |-> "basket_post", args |-> <<[kind |-> "list", items |-> <<AddEntry(p, 1)>>]>>] :
         p \in 1..2}
        \cup {[op |-> "basket_delete", args |-> tokens] :
                  tokens \in {<<Token(TRUE, 1)>>, <<Token(TRUE, 2)>>,
                              <<Token(TRUE, 1), Token(TRUE, 2)>>, <<Token(FALSE, 0)>>}}

DeletePutArgs ==
    {a \in ContactPutArgs : a.present /\ a.valid /\ a.id = Token(TRUE, 1)}

NextDelete ==
    \/ \E u \in Users, r \in DeleteRequests : BasketBegin(1, u, r)
    \/ BasketCreate(1)
    \/ BasketStatement(1)
    \/ \E o \in 1..MaxOrders : AdminSetOrderState(o, "new")
    \/ \E u \in Users : ContactDelete(u, <<Token(TRUE, 1)>>)
    \/ \E u \in Users, a \in DeletePutArgs : ContactPutBegin(2, u, a)
    \/ ContactPutSave(2)

SpecDelete == InitPopulated /\ [][NextDelete]_vars

\* Imports served by two workers at once, over the populated store.
ImportRaceUrls == {[kind |-> "doc", doc |-> i] : i \in 3..4}

NextImportRace ==
    \/ \E w \in Workers, u \in Users, url \in ImportRaceUrls : CatalogBegin(w, u, url)
    \/ \E w \in Workers : CatalogStatement(w)

SpecImportRace == InitPopulated /\ [][NextImportRace]_vars

\* The seller imports again, statement by statement, while a user adds items
\* of the earlier import to baskets, statement by statement, and the admin site
\* moves the user's orders on.
CascadeUrls == {[kind |-> "doc", doc |-> i] : i \in 2..4}

CascadeRequests ==
    {[op |-> "basket_post", args |-> <<payload>>] :
         payload \in {x \in AddPayloads : Len(x.items) = 1}}

NextCascade ==
    \/ \E url \in CascadeUrls : CatalogBegin(1, 1, url)
    \/ CatalogStatement(1)
    \/ \E r \in CascadeRequests : BasketBegin(2, 1, r)
    \/ BasketCreate(2)
    \/ BasketStatement(2)
    \/ \E o \in 1..MaxOrders : AdminSetOrderState(o, "new")

SpecCascade == InitPopulated /\ [][NextCascade]_vars

\* ================================================================ claims
\* This step gives a response: a handler of one statement ran, a request was
\* answered before its first ORM call, or a worker finished its request.
Answers ==
    \/ pending' = pending
    \/ \E w \in Workers : pending[w] # Idle /\ pending'[w] = Idle

\* The OrderItem rows when the basket request answered in this step began.
Before ==
    LET done == {w \in Workers :
                     /\ pending[w].op \in {"basket_post", "basket_put", "basket_delete"}
                     /\ pending'[w] = Idle}
    IN IF done = {} THEN orderItems ELSE (pending[CHOOSE w \in done : TRUE]).before

BasketsOf(u) ==
    {i \in 1..Len(orders) : orders[i].user_id = u /\ orders[i].state = "basket"}

\* The orders a listing is to return for user u.
ListedOrders(op, u) ==
    IF op = "basket_get" THEN BasketsOf(u)
    ELSE IF op = "order_get"
    THEN {i \in 1..Len(orders) : orders[i].user_id = u /\ orders[i].state # "basket"}
    ELSE {i \in 1..Len(orders) :
              /\ orders[i].state # "basket"
              /\ \E j \in JoinedItems(i) : \E k \in 1..Len(sellers) :
                     k = j.info.seller /\ sellers[k].user = u}

\* Sum over the order's items of quantity * price of the item's ProductInfo.
OrderTotal(o) == SumQuantityTimesPrice(JoinedItems(o))

(* C1: every order of the basket listing, the order listing and the seller's
   incoming-orders listing appears exactly once in the result, annotated with
   total_sum = sum over its OrderItems of quantity * ProductInfo.price at
   read time.  The statement of the claim; the code violates it. *)
C1_ListingTotals ==
    [][(/\ Answers
        /\ resp'.op \in {"basket_get", "order_get", "seller_orders_get"}
        /\ resp'.user \in Users) =>
           /\ \A o \in ListedOrders(resp'.op, resp'.user) :
                  /\ Cardinality({r \in resp'.rows : r.id = o}) = 1
                  /\ \A r \in resp'.rows : r.id = o => r.total_sum = OrderTotal(o)
           /\ \A r \in resp'.rows : r.id \in ListedOrders(resp'.op, resp'.user)]_vars

(* C2: after any sequence of add, update, delete and place-order requests,
   every user has at most one Order in state "basket". *)
C2_SingleBasket ==
    \A u \in Users : Cardinality(BasketsOf(u)) <= 1

\* A user's second successful add has found the basket of the first.
C2_Witness ==
    /\ resp.op = "basket_post" /\ resp.status = "ok" /\ resp.count = 1
    /\ Cardinality(BasketsOf(resp.user)) = 1
    /\ Cardinality({it \in orderItems : it.order \in BasketsOf(resp.user)}) = 2

(* C3: a delete-basket-items request by user B removes only OrderItems of B's
   own basket that the request names: an item of another user's order, or of a
   non-basket order of B, still exists afterwards.  The statement of the claim,
   at the DELETE of the request; the code violates it. *)
C3_DeleteOnlyOwnBasket ==
    [][\A w \in Workers :
           (/\ pending[w].op = "basket_delete" /\ pending[w].phase = "delete"
            /\ pending'[w] = Idle) =>
               \A it \in orderItems \ orderItems' :
                   /\ orders[it.order].user_id = pending[w].user
                   /\ orders[it.order].state = "basket"
                   /\ it.id \in NamedIds(pending[w].args)]_vars

\* The caller's order that a place-order request names, if any.
NamedOrder(os, u, a) ==
    {i \in 1..Len(os) : a.present /\ a.id.digit /\ i = a.id.id /\ os[i].user_id = u}

(* C4: a place-order request whose contact id names no existing Contact fails
   with the explicit argument error, sends no notification and leaves the
   order's state and contact unchanged.  The statement of the claim, for a
   request that names an order of the caller; the code violates it. *)
C4_InvalidContactArgumentError ==
    [][(/\ Answers /\ resp'.op = "order_post"
        /\ NamedOrder(orders, resp'.user, resp'.args[1]) # {}
        /\ ~ ContactExists(resp'.args[1].contact)) =>
           /\ resp'.status = "arguments_incorrect"
           /\ sent' = sent
           /\ orders' = orders]_vars

(* C5: importing the same catalog document twice in succession for the same
   seller leaves the same ProductInfo listings (product, seller, name,
   quantity, price, price_rrc, article, parameters) as importing it once:
   none duplicated, none lost. *)
C5_ImportIdempotent ==
    [][\A w \in Workers :
           (/\ pending[w].phase = "import" /\ pending'[w] = Idle
            /\ resp'.op = "catalog_post" /\ resp'.repeated)
               => ListingBag' = pending[w].listed]_vars

\* The two-goods document has just been imported a second time in a row.
C5_Witness ==
    /\ resp.op = "catalog_post" /\ resp.repeated /\ resp.status = "ok"
    /\ resp.args[1].doc = 2
    /\ Cardinality(productInfos) >= 2

\* Row q of ProductInfo is the row an import makes of good item: the good's
\* product, model, quantity, prices and article, with one ProductParameter per
\* parameter pair.
RowOfGood(c, q, item) ==
    LET ParametersOf == {x \in c.productParameters : x.product_info = q.id}
    IN /\ q.name = item.model
       /\ q.quantity = item.quantity
       /\ q.price = item.price
       /\ q.price_rrc = item.price_rrc
       /\ q.article = item.id
       /\ q.product \in 1..Len(c.products)
       /\ c.products[q.product] = [name |-> item.name, category |-> item.category]
       /\ {<<c.parameters[x.parameter], x.value>> : x \in ParametersOf}
              = Range(item.parameters)
       /\ Cardinality(ParametersOf) = Len(item.parameters)

(* C6: after a successful import the seller's ProductInfo rows are exactly one
   per good of the document, with its quantity, price, price_rrc and article
   and one ProductParameter per parameter pair; no row the seller had before
   survives, and the rows of other sellers are unchanged.  The statement of the
   claim, at the response of the import and at each of its statements; the
   code violates it. *)
C6_ImportReplaces ==
    [][\A w \in Workers :
           (pending[w].phase = "import" /\ pending'[w] # pending[w]) =>
               LET p == pending[w]
                   goods == Docs[p.args[1].doc].goods
                   mine == {q \in productInfos' : q.seller = p.seller}
               IN /\ {q \in productInfos' : q.seller # p.seller}
                         = {q \in productInfos : q.seller # p.seller}
                  /\ (pending'[w] = Idle /\ resp'.status = "ok") =>
                         /\ Cardinality(mine) = Len(goods)
                         /\ \A k \in 1..Len(goods) :
                                \E q \in mine : RowOfGood(Catalog', q, goods[k])
                         /\ \A q \in mine : q.id >= p.first]_vars

(* C7: an add-to-basket request with a list of n valid entries for n distinct
   products creates one OrderItem per entry, all in the caller's basket, and
   reports a created count of n, for every n >= 1.  The statement of the
   claim, for a caller whose basket can be got or created; the code violates
   it. *)
C7_AddCreatesEveryEntry ==
    [][(/\ Answers /\ resp'.op = "basket_post"
        /\ resp'.args[1].kind = "list"
        /\ Len(resp'.args[1].items) >= 1
        /\ GetOrCreateBasket(orders, resp'.user).status = "ok"
        /\ \A k \in 1..Len(resp'.args[1].items) :
               \E p \in productInfos : p.id = resp'.args[1].items[k].product_info
        /\ \A j, k \in 1..Len(resp'.args[1].items) :
               j # k => resp'.args[1].items[j].product_info
                            # resp'.args[1].items[k].product_info) =>
           LET n == Len(resp'.args[1].items)
               created == orderItems' \ Before
           IN /\ resp'.status = "ok"
              /\ resp'.count = n
              /\ Cardinality(created) = n
              /\ \A it \in created :
                     /\ orders'[it.order].user_id = resp'.user
                     /\ orders'[it.order].state = "basket"]_vars

(* C8: place-order moves an order to "new" only from "basket": a place-order
   request naming an order of the caller that is in another state does not
   change that order's state or contact. *)
C8_PlaceOrderOnlyFromBasket ==
    [][(Answers /\ resp'.op = "order_post") =>
           /\ \A i \in NamedOrder(orders, resp'.user, resp'.args[1]) :
                  orders[i].state # "basket" => orders'[i] = orders[i]
           /\ \A i \in 1..Len(orders) :
                  (orders'[i].state = "new" /\ orders[i].state # "new")
                      => orders[i].state = "basket"]_vars

\* A place-order request with an existing contact has named the caller's own
\* order, which the admin site had moved to "canceled".
C8_Witness ==
    /\ resp.op = "order_post"
    /\ ContactExists(resp.args[1].contact)
    /\ \E i \in NamedOrder(orders, resp.user, resp.args[1]) :
           orders[i].state = "canceled"

(* C9: in every state reachable through the request handlers, every Order that
   place-order has moved to "new" has a Contact attached: no order is "new"
   without its contact or has the contact set while still "basket". *)
C9_ContactAndStateTogether ==
    \A i \in 1..Len(orders) :
        /\ (orders[i].state = "new" => orders[i].contact # 0)
        /\ (orders[i].contact # 0 => orders[i].state # "basket")

\* A place-order request with an existing contact has named the caller's own
\* basket and has been answered: the order has neither the state nor the contact.
C9_Witness ==
    /\ resp.op = "order_post"
    /\ ContactExists(resp.args[1].contact)
    /\ \E i \in NamedOrder(orders, resp.user, resp.args[1]) :
           orders[i].state = "basket" /\ orders[i].contact = 0

(* C10: an update-basket request changes the quantity of exactly the
   OrderItems of the caller's basket named by an entry whose id and quantity
   are both integers; every other item keeps its quantity, and the reported
   count is the number of rows changed.  The statement of the claim, for a
   caller whose basket can be got or created; the code violates it. *)
C10_UpdateFrame ==
    [][(/\ Answers /\ resp'.op = "basket_put"
        /\ resp'.args[1].kind = "list"
        /\ GetOrCreateBasket(orders, resp'.user).status = "ok") =>
           LET entries == resp'.args[1].items
               basket == GetOrCreateBasket(orders, resp'.user).id
               valid == {k \in 1..Len(entries) :
                             entries[k].idIsInt /\ entries[k].quantityIsInt}
               Naming(it) == {k \in valid : it.order = basket /\ entries[k].id = it.id}
               Last(S) == CHOOSE k \in S : \A j \in S : j <= k
           IN /\ resp'.status = "ok"
              /\ {it.id : it \in orderItems'} = {it.id : it \in Before}
              /\ \A it \in Before :
                     IF Naming(it) # {}
                     THEN [it EXCEPT !.quantity = entries[Last(Naming(it))].quantity]
                              \in orderItems'
                     ELSE it \in orderItems'
              /\ resp'.count =
                     Cardinality({k \in valid : \E it \in Before : k \in Naming(it)})]_vars

(* C11: an email confirmation token is single-use: a confirm request with a
   matching (email, token) pair activates the user and deletes the token, and
   every later confirm request with the same pair fails with an error and
   changes nothing.  The statement of the claim: a request that finds no token
   for the pair fails and changes nothing, and a request answers success only
   when it is the one that deletes the token; the code violates it. *)
C11_TokenSingleUse ==
    [][/\ (resp'.op = "confirm" /\ resp'.status = "incorrect" /\ resp' # resp) =>
              UNCHANGED <<authVars, storeVars>>
       /\ \A w \in Workers :
              (pending[w].phase = "confirm" /\ pending'[w] # pending[w]) =>
                  /\ (pending[w].pc = "save" /\ pending'[w] # Idle) =>
                         users'[pending[w].token.user].is_active
                  /\ (pending'[w] = Idle /\ resp'.status = "ok") =>
                         /\ pending[w].token \in confirmTokens
                         /\ pending[w].token \notin confirmTokens']_vars

(* C12: place-order sends the new-order notification if and only if its update
   changed exactly one Order row (the count the update reports); when the given
   id names no order of the caller, no row is changed, no notification is sent,
   and the response is a failure. *)
C12_NotifyIffOneRowUpdated ==
    [][(Answers /\ resp'.op = "order_post") =>
           LET changed == {i \in 1..Len(orders) : orders'[i] # orders[i]}
           IN /\ Len(orders') = Len(orders)
              /\ sent' \in {sent, sent + 1}
              /\ (sent' = sent + 1) <=> (resp'.count = 1)
              /\ Cardinality(changed) <= resp'.count
              /\ NamedOrder(orders, resp'.user, resp'.args[1]) = {} =>
                     /\ changed = {}
                     /\ sent' = sent
                     /\ resp'.status # "ok"]_vars

\* A place-order request with an existing contact has named another user's
\* order, which the admin site had moved to "sent"; the request failed, the order
\* is as it was and nothing was sent.
C12_Witness ==
    /\ resp.op = "order_post" /\ resp.status # "ok"
    /\ resp.args[1].present /\ resp.args[1].id.digit
    /\ ContactExists(resp.args[1].contact)
    /\ resp.args[1].id.id \in 1..Len(orders)
    /\ orders[resp.args[1].id.id].user_id # resp.user
    /\ orders[resp.args[1].id.id].user_id # 0
    /\ orders[resp.args[1].id.id].state = "sent"
    /\ sent = 0

(* C13: when two requests of the same user that each get-or-create the basket
   interleave so that both look up the basket before either creates it, the
   user still ends with at most one Order in state "basket".  The statement of
   the claim, once both requests have been answered; the code violates it. *)
C13_ConcurrentSingleBasket ==
    (\A w \in Workers : pending[w] = Idle) =>
        \A u \in Users : Cardinality(BasketsOf(u)) <= 1

(* C14: an add-to-basket or update-basket request whose items payload is not
   valid JSON ends in a failure outcome (never a success response) and leaves
   the store unchanged: no Order is created and no OrderItem is created or
   modified.  The statement of the claim; the code violates it. *)
C14_MalformedLeavesStoreUnchanged ==
    [][(/\ Answers /\ resp'.op \in {"basket_post", "basket_put"}
        /\ resp'.user \in Users
        /\ resp'.args[1].kind = "malformed") =>
           /\ resp'.status # "ok"
           /\ orders' = orders
           /\ orderItems' = orderItems]_vars

\* The positions of an import after the DELETE of the seller's rows.
AfterDelete ==
    {"product_get", "product_create", "info_create", "parameter_get",
     "parameter_create", "parameter_value"}

(* C15: catalog import is not all-or-nothing: if a step fails after the
   seller's prior ProductInfo rows have been deleted and before every good has
   been recreated, the store is left with the prior stock gone and only the
   goods processed before the failure present.  The statement of the claim, at
   the statement that fails, g being the good the import is at; the code
   violates it. *)
C15_ImportNotAtomic ==
    [][\A w \in Workers :
           (/\ pending[w].phase = "import" /\ pending[w].pc \in AfterDelete
            /\ pending'[w] = Idle /\ resp'.status # "ok") =>
               LET p == pending[w]
                   goods == Docs[p.args[1].doc].goods
                   k == IF p.pc \in {"product_get", "product_create"}
                        THEN p.g - 1 ELSE p.g
                   mine == {q \in productInfos' : q.seller = p.seller}
               IN /\ \A q \in mine : q.id >= p.first
                  /\ Cardinality(mine) = k
                  /\ \A j \in 1..k : \E q \in mine :
                         /\ q.name = goods[j].model
                         /\ q.quantity = goods[j].quantity
                         /\ q.price = goods[j].price
                         /\ q.article = goods[j].id]_vars

\* Each OrderItem and each ProductParameter references an existing ProductInfo.
ReferencesExist ==
    /\ \A it \in orderItems : \E p \in productInfos : p.id = it.product
    /\ \A x \in productParameters : \E p \in productInfos : p.id = x.product_info

(* C16: referential integrity is kept by cascade: when catalog import deletes
   a seller's prior ProductInfo rows, every ProductParameter and every
   OrderItem (in baskets and in placed orders) that references one of those
   rows is deleted with it, so in every reachable state each OrderItem and
   each ProductParameter references an existing ProductInfo. *)
C16_CascadeKeepsReferences ==
    /\ []ReferencesExist
    /\ [][LET gone == {p.id : p \in productInfos \ productInfos'}
          IN gone # {} =>
                 /\ orderItems' = {it \in orderItems : it.product \notin gone}
                 /\ productParameters'
                        = {x \in productParameters : x.product_info \notin gone}]_vars

\* An item of the first import had been added to an order the admin site then
\* moved to "new"; a second add, to the user's next basket, had passed is_valid
\* for a row of the first import when the seller's import deleted the rows: the
\* item went with them, and the save of the second was refused.
C16_Witness ==
    /\ resp.op = "basket_post" /\ resp.status = "integrity_error"
    /\ pending[1].phase = "import" /\ pending[1].pc \in AfterDelete
    /\ nextOrderItem = 2
    /\ orderItems = {}
    /\ \E i, j \in 1..Len(orders) :
           orders[i].state = "new" /\ orders[j].state = "basket"
    /\ \A p \in productInfos : p.id >= 3

====
